---- MODULE Spec2Model ----
(***************************************************************************)
(* Model of substack_mcp.py: the newsletter cache (load_newsletter_cache / *)
(* save_newsletter_cache over a JSON file), the fan-out search             *)
(* search_across_substacks with its per-newsletter tasks                   *)
(* search_single_newsletter, discover_popular_substacks and the            *)
(* single-item lookup tools.                                               *)
(*                                                                         *)
(* A Python str is a sequence of one-character strings, so that JSON       *)
(* encoding, JSON parsing, str.lower() and slicing of a str are computed   *)
(* character by character.  A value returned by json.load is a tagged      *)
(* record [t, v] with t in {"list", "str", "int", "null"}.                 *)
(***************************************************************************)
EXTENDS Integers, Sequences, FiniteSets, TLC

(***************************************************************************)
(* Bounds of the model.                                                    *)
(***************************************************************************)
\* largest max_newsletters / limit argument tried
MaxArg == 3
\* most negative max_newsletters / limit argument tried is -NegArg
NegArg == 1
\* a search_across_substacks call is followed only while it fans out to at
\* most MaxFanOut concurrent searches
MaxFanOut == 2
\* largest results_per_newsletter tried, hence most posts per search
MaxPosts == 1
\* longest list handed directly to save_newsletter_cache in SpecCache
MaxSaveLen == 2

(***************************************************************************)
(* The newsletter URLs that occur in the source, as Python strs.           *)
(***************************************************************************)
\* "https://stratechery.com"
url_stratechery ==
    <<"h", "t", "t", "p", "s", ":", "/", "/", "s", "t", "r", "a", "t", "e", "c", "h", "e", "r", "y", ".", "c", "o", "m">>
\* "https://www.platformer.news"
url_platformer ==
    <<"h", "t", "t", "p", "s", ":", "/", "/", "w", "w", "w", ".", "p", "l", "a", "t", "f", "o", "r", "m", "e", "r", ".", "n", "e", "w", "s">>
\* "https://www.slowboring.com"
url_slowboring ==
    <<"h", "t", "t", "p", "s", ":", "/", "/", "w", "w", "w", ".", "s", "l", "o", "w", "b", "o", "r", "i", "n", "g", ".", "c", "o", "m">>
\* "https://www.leandrorestrepo.com"
url_leandrorestrepo ==
    <<"h", "t", "t", "p", "s", ":", "/", "/", "w", "w", "w", ".", "l", "e", "a", "n", "d", "r", "o", "r", "e", "s", "t", "r", "e", "p", "o", ".", "c", "o", "m">>
\* "https://www.theverge.com"
url_theverge ==
    <<"h", "t", "t", "p", "s", ":", "/", "/", "w", "w", "w", ".", "t", "h", "e", "v", "e", "r", "g", "e", ".", "c", "o", "m">>
\* "https://tedgioia.substack.com"
url_tedgioia ==
    <<"h", "t", "t", "p", "s", ":", "/", "/", "t", "e", "d", "g", "i", "o", "i", "a", ".", "s", "u", "b", "s", "t", "a", "c", "k", ".", "c", "o", "m">>
\* "https://sinocism.com"
url_sinocism ==
    <<"h", "t", "t", "p", "s", ":", "/", "/", "s", "i", "n", "o", "c", "i", "s", "m", ".", "c", "o", "m">>
\* "https://noahpinion.substack.com"
url_noahpinion ==
    <<"h", "t", "t", "p", "s", ":", "/", "/", "n", "o", "a", "h", "p", "i", "n", "i", "o", "n", ".", "s", "u", "b", "s", "t", "a", "c", "k", ".", "c", "o", "m">>
\* "https://astralcodexten.substack.com"
url_astralcodexten ==
    <<"h", "t", "t", "p", "s", ":", "/", "/", "a", "s", "t", "r", "a", "l", "c", "o", "d", "e", "x", "t", "e", "n", ".", "s", "u", "b", "s", "t", "a", "c", "k", ".", "c", "o", "m">>
\* "https://newsletter.pragmaticengineer.com"
url_pragmaticengineer ==
    <<"h", "t", "t", "p", "s", ":", "/", "/", "n", "e", "w", "s", "l", "e", "t", "t", "e", "r", ".", "p", "r", "a", "g", "m", "a", "t", "i", "c", "e", "n", "g", "i", "n", "e", "e", "r", ".", "c", "o", "m">>
\* "https://simonwillison.net"
url_simonwillison ==
    <<"h", "t", "t", "p", "s", ":", "/", "/", "s", "i", "m", "o", "n", "w", "i", "l", "l", "i", "s", "o", "n", ".", "n", "e", "t">>
\* "https://taibbi.substack.com"
url_taibbi ==
    <<"h", "t", "t", "p", "s", ":", "/", "/", "t", "a", "i", "b", "b", "i", ".", "s", "u", "b", "s", "t", "a", "c", "k", ".", "c", "o", "m">>
\* "https://greenwald.substack.com"
url_greenwald ==
    <<"h", "t", "t", "p", "s", ":", "/", "/", "g", "r", "e", "e", "n", "w", "a", "l", "d", ".", "s", "u", "b", "s", "t", "a", "c", "k", ".", "c", "o", "m">>
\* "https://theweek.com"
url_theweek ==
    <<"h", "t", "t", "p", "s", ":", "/", "/", "t", "h", "e", "w", "e", "e", "k", ".", "c", "o", "m">>
\* "https://sciencebasedmedicine.substack.com"
url_sciencebasedmedicine ==
    <<"h", "t", "t", "p", "s", ":", "/", "/", "s", "c", "i", "e", "n", "c", "e", "b", "a", "s", "e", "d", "m", "e", "d", "i", "c", "i", "n", "e", ".", "s", "u", "b", "s", "t", "a", "c", "k", ".", "c", "o", "m">>
\* "https://davidrozado.substack.com"
url_davidrozado ==
    <<"h", "t", "t", "p", "s", ":", "/", "/", "d", "a", "v", "i", "d", "r", "o", "z", "a", "d", "o", ".", "s", "u", "b", "s", "t", "a", "c", "k", ".", "c", "o", "m">>
\* "https://rootsofprogress.org"
url_rootsofprogress ==
    <<"h", "t", "t", "p", "s", ":", "/", "/", "r", "o", "o", "t", "s", "o", "f", "p", "r", "o", "g", "r", "e", "s", "s", ".", "o", "r", "g">>
\* "https://www.experimental-history.com"
url_experimental_history ==
    <<"h", "t", "t", "p", "s", ":", "/", "/", "w", "w", "w", ".", "e", "x", "p", "e", "r", "i", "m", "e", "n", "t", "a", "l", "-", "h", "i", "s", "t", "o", "r", "y", ".", "c", "o", "m">>
\* "https://www.persuasion.community"
url_persuasion ==
    <<"h", "t", "t", "p", "s", ":", "/", "/", "w", "w", "w", ".", "p", "e", "r", "s", "u", "a", "s", "i", "o", "n", ".", "c", "o", "m", "m", "u", "n", "i", "t", "y">>
\* "https://erikhoel.substack.com"
url_erikhoel ==
    <<"h", "t", "t", "p", "s", ":", "/", "/", "e", "r", "i", "k", "h", "o", "e", "l", ".", "s", "u", "b", "s", "t", "a", "c", "k", ".", "c", "o", "m">>
\* "https://freddiedeboer.substack.com"
url_freddiedeboer ==
    <<"h", "t", "t", "p", "s", ":", "/", "/", "f", "r", "e", "d", "d", "i", "e", "d", "e", "b", "o", "e", "r", ".", "s", "u", "b", "s", "t", "a", "c", "k", ".", "c", "o", "m">>
\* "https://www.readingsupremacy.com"
url_readingsupremacy ==
    <<"h", "t", "t", "p", "s", ":", "/", "/", "w", "w", "w", ".", "r", "e", "a", "d", "i", "n", "g", "s", "u", "p", "r", "e", "m", "a", "c", "y", ".", "c", "o", "m">>
\* "https://www.fullstackeconomics.com"
url_fullstackeconomics ==
    <<"h", "t", "t", "p", "s", ":", "/", "/", "w", "w", "w", ".", "f", "u", "l", "l", "s", "t", "a", "c", "k", "e", "c", "o", "n", "o", "m", "i", "c", "s", ".", "c", "o", "m">>
\* "https://www.theovershoot.co"
url_theovershoot ==
    <<"h", "t", "t", "p", "s", ":", "/", "/", "w", "w", "w", ".", "t", "h", "e", "o", "v", "e", "r", "s", "h", "o", "o", "t", ".", "c", "o">>
\* "https://www.readtpa.com"
url_readtpa ==
    <<"h", "t", "t", "p", "s", ":", "/", "/", "w", "w", "w", ".", "r", "e", "a", "d", "t", "p", "a", ".", "c", "o", "m">>

(***************************************************************************)
(* Module-level data of the program.                                       *)
(***************************************************************************)
POPULAR_NEWSLETTERS ==
    << url_stratechery, url_platformer, url_slowboring, url_leandrorestrepo,
       url_theverge, url_tedgioia, url_sinocism, url_noahpinion,
       url_astralcodexten, url_pragmaticengineer >>

\* the dict literal of discover_popular_substacks, in insertion order
categories ==
    << [name |-> <<"t", "e", "c", "h", "n", "o", "l", "o", "g", "y">>,
        newsletters |-> << url_stratechery, url_platformer, url_pragmaticengineer,
                           url_theverge, url_simonwillison >>],
       [name |-> <<"p", "o", "l", "i", "t", "i", "c", "s">>,
        newsletters |-> << url_slowboring, url_sinocism, url_taibbi,
                           url_greenwald, url_theweek >>],
       [name |-> <<"s", "c", "i", "e", "n", "c", "e">>,
        newsletters |-> << url_astralcodexten, url_sciencebasedmedicine,
                           url_davidrozado, url_rootsofprogress,
                           url_experimental_history >>],
       [name |-> <<"c", "u", "l", "t", "u", "r", "e">>,
        newsletters |-> << url_tedgioia, url_persuasion, url_erikhoel,
                           url_freddiedeboer, url_readingsupremacy >>],
       [name |-> <<"e", "c", "o", "n", "o", "m", "i", "c", "s">>,
        newsletters |-> << url_noahpinion, url_leandrorestrepo,
                           url_fullstackeconomics, url_theovershoot,
                           url_readtpa >>] >>

(***************************************************************************)
(* Python built-ins used by the program.                                   *)
(***************************************************************************)
Min(a, b) == IF a < b THEN a ELSE b

Max(a, b) == IF a > b THEN a ELSE b

\* L[:n] of a list or str: a negative n counts from the end
PySlice(L, n) ==
    SubSeq(L, 1, IF n >= 0 THEN Min(n, Len(L)) ELSE Max(Len(L) + n, 0))

\* Optional[...] arguments
None == [some |-> FALSE, v |-> <<>>]

Some(x) == [some |-> TRUE, v |-> x]

\* truth value of an Optional[str] or Optional[List[str]] argument
ArgTruthy(a) == a.some /\ a.v # <<>>

\* values json.load can return
PyList(l) == [t |-> "list", v |-> l]

PyStr(s) == [t |-> "str", v |-> s]

PyInt(n) == [t |-> "int", v |-> n]

PyNull == [t |-> "null", v |-> 0]

\* truth value of a value returned by json.load
Truthy(pv) ==
    CASE pv.t = "list" -> pv.v # <<>>
      [] pv.t = "str"  -> pv.v # <<>>
      [] pv.t = "int"  -> pv.v # 0
      [] OTHER         -> FALSE

\* whether pv[:n] is defined (otherwise the slice raises TypeError)
Sliceable(pv) == pv.t \in {"list", "str"}

\* an element of a parsed list as the program's own value: a str element is
\* its characters, any other element stays an opaque non-str value
Elem(pv) == IF pv.t = "str" THEN pv.v ELSE pv

\* the items that iterating pv[:n] yields: the elements of a list, the
\* one-character strs of a str
SliceItems(pv, n) ==
    IF pv.t = "list"
    THEN [i \in 1..Len(PySlice(pv.v, n)) |-> Elem(pv.v[i])]
    ELSE [i \in 1..Len(PySlice(pv.v, n)) |-> <<pv.v[i]>>]

\* str.lower() on the letters the model uses
LowerChar(c) ==
    CASE c = "T" -> "t"
      [] c = "P" -> "p"
      [] c = "S" -> "s"
      [] c = "C" -> "c"
      [] c = "E" -> "e"
      [] OTHER   -> c

Lower(s) == [i \in 1..Len(s) |-> LowerChar(s[i])]

\* list(dict.fromkeys(L)): first occurrence of each entry, in order
RECURSIVE DictFromKeys(_, _)
DictFromKeys(L, acc) ==
    IF L = <<>> THEN acc
    ELSE DictFromKeys(Tail(L),
                      IF \E i \in 1..Len(acc) : acc[i] = Head(L)
                      THEN acc ELSE Append(acc, Head(L)))

(***************************************************************************)
(* json.dump of a list of strs (default separators, ensure_ascii).         *)
(***************************************************************************)
\* EscapeChar with the double quote written as it is
EscapeCharQuoteAsIs(c) ==
    CASE c = "\\" -> <<"\\", "\\">>
      [] c = "\n" -> <<"\\", "n">>
      [] c = "\t" -> <<"\\", "t">>
      [] OTHER    -> <<c>>

EscapeChar(c) ==
    CASE c = "\"" -> <<"\\", "\"">>
      [] c = "\\" -> <<"\\", "\\">>
      [] c = "\n" -> <<"\\", "n">>
      [] c = "\t" -> <<"\\", "t">>
      [] OTHER    -> <<c>>

\* the characters json.dump writes as an escape sequence
Escaped == {"\"", "\\", "\n", "\t"}

\* the first position from p on at which s holds a character of stops
\* (there is one)
FirstOf(s, p, stops) ==
    CHOOSE q \in p..Len(s) :
        /\ s[q] \in stops
        /\ \A r \in p..(q - 1) : s[r] \notin stops

\* the body of a string: runs of plain characters are copied, every other
\* character is replaced by its escape sequence
RECURSIVE EncodeChars(_)
EncodeChars(s) ==
    IF \A i \in 1..Len(s) : s[i] \notin Escaped THEN s
    ELSE LET i == FirstOf(s, 1, Escaped)
         IN  SubSeq(s, 1, i - 1) \o EscapeChar(s[i])
             \o EncodeChars(SubSeq(s, i + 1, Len(s)))

EncodeStr(s) == <<"\"">> \o EncodeChars(s) \o <<"\"">>

RECURSIVE EncodeItems(_)
EncodeItems(L) ==
    IF L = <<>> THEN <<>>
    ELSE IF Len(L) = 1 THEN EncodeStr(L[1])
    ELSE EncodeStr(L[1]) \o <<",", " ">> \o EncodeItems(Tail(L))

json_dump(L) == <<"[">> \o EncodeItems(L) \o <<"]">>

(***************************************************************************)
(* json.load: a recursive-descent parser over the file's characters.       *)
(* A parse step returns [ok, v, p]: success, the value, the next position. *)
(***************************************************************************)
Whitespace == {" ", "\n", "\t", "\r"}

Digits == <<"0", "1", "2", "3", "4", "5", "6", "7", "8", "9">>

IsDigit(c) == \E d \in 1..10 : Digits[d] = c

DigitVal(c) == (CHOOSE d \in 1..10 : Digits[d] = c) - 1

ParseFail == [ok |-> FALSE, v |-> PyNull, p |-> 0]

ParseOk(val, pos) == [ok |-> TRUE, v |-> val, p |-> pos]

RECURSIVE SkipWs(_, _)
SkipWs(t, p) ==
    IF p <= Len(t) /\ t[p] \in Whitespace THEN SkipWs(t, p + 1) ELSE p

\* the character an escape sequence \c stands for; <<>> if \c is invalid
Unescape(c) ==
    CASE c = "\"" -> <<"\"">>
      [] c = "\\" -> <<"\\">>
      [] c = "/"  -> <<"/">>
      [] c = "n"  -> <<"\n">>
      [] c = "t"  -> <<"\t">>
      [] c = "r"  -> <<"\r">>
      [] OTHER    -> <<>>

\* characters json rejects unescaped inside a string (strict mode)
ControlChars == {"\n", "\t", "\r"}

\* the characters that end a run of plain characters inside a string
StringStops == {"\"", "\\"} \cup ControlChars

\* scan a string body from p (after the opening quote) up to the closing
\* quote, a run of plain characters at a time
RECURSIVE ScanString(_, _, _)
ScanString(t, p, acc) ==
    IF \A q \in p..Len(t) : t[q] \notin StringStops THEN ParseFail
    ELSE LET q == FirstOf(t, p, StringStops)
             chunk == acc \o SubSeq(t, p, q - 1)
         IN  IF t[q] = "\"" THEN ParseOk(PyStr(chunk), q + 1)
             ELSE IF t[q] = "\\"
                  THEN IF q + 1 > Len(t) \/ Unescape(t[q + 1]) = <<>>
                       THEN ParseFail
                       ELSE ScanString(t, q + 2, chunk \o Unescape(t[q + 1]))
             ELSE ParseFail

\* scan the digits of a non-negative integer from p
RECURSIVE ScanInt(_, _, _)
ScanInt(t, p, acc) ==
    IF p <= Len(t) /\ IsDigit(t[p])
    THEN ScanInt(t, p + 1, 10 * acc + DigitVal(t[p]))
    ELSE ParseOk(PyInt(acc), p)

IsLiteralAt(t, p, lit) ==
    /\ p + Len(lit) - 1 <= Len(t)
    /\ SubSeq(t, p, p + Len(lit) - 1) = lit

RECURSIVE ParseValue(_, _), ParseElems(_, _, _)
ParseValue(t, p) ==
    IF p > Len(t) THEN ParseFail
    ELSE IF t[p] = "\"" THEN ScanString(t, p + 1, <<>>)
    ELSE IF t[p] = "["
         THEN IF SkipWs(t, p + 1) <= Len(t) /\ t[SkipWs(t, p + 1)] = "]"
              THEN ParseOk(PyList(<<>>), SkipWs(t, p + 1) + 1)
              ELSE ParseElems(t, SkipWs(t, p + 1), <<>>)
    ELSE IF t[p] = "0" THEN ParseOk(PyInt(0), p + 1)
    ELSE IF IsDigit(t[p]) THEN ScanInt(t, p, 0)
    ELSE IF IsLiteralAt(t, p, <<"n", "u", "l", "l">>) THEN ParseOk(PyNull, p + 4)
    ELSE ParseFail

\* parse the elements of an array from p (at the start of an element)
ParseElems(t, p, acc) ==
    LET r == ParseValue(t, p)
        q == SkipWs(t, r.p)
    IN  IF ~r.ok \/ q > Len(t) THEN ParseFail
        ELSE IF t[q] = "," THEN ParseElems(t, SkipWs(t, q + 1), Append(acc, r.v))
        ELSE IF t[q] = "]" THEN ParseOk(PyList(Append(acc, r.v)), q + 1)
        ELSE ParseFail

\* json.load(f): the parsed value, or failure (JSONDecodeError)
json_load(t) ==
    LET r == ParseValue(t, SkipWs(t, 1))
    IN  IF r.ok /\ SkipWs(t, r.p) > Len(t) THEN r ELSE ParseFail

(***************************************************************************)
(* The cache file and the two cache functions.                             *)
(***************************************************************************)
NoFile == [exists |-> FALSE, text |-> <<>>]

FileWith(text) == [exists |-> TRUE, text |-> text]

\* load_newsletter_cache(): [] when the file is missing or json.load raises,
\* otherwise whatever json.load returns
load_newsletter_cache(file) ==
    IF file.exists
    THEN LET r == json_load(file.text)
         IN  IF r.ok THEN r.v ELSE PyList(<<>>)
    ELSE PyList(<<>>)

\* save_newsletter_cache(newsletters): the file content after the call
save_newsletter_cache(newsletters) == FileWith(json_dump(newsletters))

(***************************************************************************)
(* discover_popular_substacks: the list it returns and the header of its   *)
(* text.                                                                   *)
(***************************************************************************)
CategoryNames == {categories[k].name : k \in 1..Len(categories)}

CategoryList(name) ==
    categories[CHOOSE k \in 1..Len(categories) : categories[k].name = name].newsletters

\* all_newsletters: every category's list, in the dict's order
RECURSIVE AllNewsletters(_)
AllNewsletters(k) ==
    IF k > Len(categories) THEN <<>>
    ELSE categories[k].newsletters \o AllNewsletters(k + 1)

\* unique_newsletters: all_newsletters de-duplicated
unique_newsletters == DictFromKeys(AllNewsletters(1), <<>>)

discover_result(category, limit) ==
    IF ArgTruthy(category) /\ Lower(category.v) \in CategoryNames
    THEN [newsletters |-> PySlice(CategoryList(Lower(category.v)), limit),
          header |-> "Popular <category> newsletters on Substack"]
    ELSE [newsletters |-> PySlice(unique_newsletters, limit),
          header |-> IF ArgTruthy(category)
                     THEN "No newsletters found for category"
                     ELSE "Popular newsletters on Substack"]

\* DiscoverCacheWrite that writes the cache only when there is none yet
DiscoverCacheKeepsExisting(file, newsletters) ==
    IF file.exists THEN file ELSE save_newsletter_cache(newsletters)

\* the cache file after the discovery's cache update
DiscoverCacheWrite(file, newsletters) == save_newsletter_cache(newsletters)

(***************************************************************************)
(* search_across_substacks: selection of the newsletters to search.        *)
(* The result is [raised, list]: slicing a truthy cache value that is      *)
(* neither a list nor a str raises TypeError out of the tool.              *)
(***************************************************************************)
Selected(list) == [raised |-> FALSE, list |-> list]

SelectionRaises == [raised |-> TRUE, list |-> <<>>]

SelectNewsletters(newsletters, max_newsletters, popular_only, file) ==
    IF ArgTruthy(newsletters)
    THEN Selected(PySlice(newsletters.v, max_newsletters))
    ELSE IF popular_only
    THEN Selected(PySlice(POPULAR_NEWSLETTERS, max_newsletters))
    ELSE LET cached_newsletters == load_newsletter_cache(file)
         IN  IF Truthy(cached_newsletters)
             THEN IF Sliceable(cached_newsletters)
                  THEN Selected(SliceItems(cached_newsletters, max_newsletters))
                  ELSE SelectionRaises
             ELSE Selected(PySlice(POPULAR_NEWSLETTERS, max_newsletters))

(***************************************************************************)
(* search_single_newsletter: one task per selected newsletter.             *)
(***************************************************************************)
\* a task that has been created and awaits newsletter.search_posts
NewTask ==
    [pc |-> "search_posts", search_results |-> 0, results |-> <<>>,
     ret |-> <<>>, failed |-> FALSE, raised |-> FALSE]

\* a task that is over: it returned ret, after an exception of the content
\* client if failed, or it raised; its locals are gone
DoneTask(ret, failed, raised) ==
    [pc |-> "done", search_results |-> 0, results |-> <<>>,
     ret |-> ret, failed |-> failed, raised |-> raised]

\* dict.get(key, default) on a metadata dict
Get(metadata, key, default) ==
    IF key \in DOMAIN metadata THEN metadata[key] ELSE default

\* the tuple appended for the k-th post of the i-th search
PostTuple(metadata, i, k) ==
    << Get(metadata, "title", "Untitled"),
       Get(metadata, "publication_date", "Unknown date"),
       [newsletter |-> i, post |-> k] >>

\* ExceptClause that lets the exception out of the task
ExceptClauseReraises(results) == [ret |-> <<>>, raised |-> TRUE]

\* the except clause, entered with the results gathered so far: it prints
\* the error and returns [], and raises nothing
ExceptClause(results) == [ret |-> <<>>, raised |-> FALSE]

(***************************************************************************)
(* asyncio.gather and the compilation of the results.                      *)
(***************************************************************************)
\* GatherDone that waits for the first task only
GatherDoneFirstCompleted(ts) ==
    IF ts = <<>> THEN TRUE ELSE \E i \in 1..Len(ts) : ts[i].pc = "done"

\* gather is over once every task is done
GatherDone(ts) == \A i \in 1..Len(ts) : ts[i].pc = "done"

\* without return_exceptions, gather raises as soon as a task has raised
GatherRaises(ts) == \E i \in 1..Len(ts) : ts[i].raised

\* GatherResults in the order in which the tasks completed
GatherResultsAsCompleted(ts, order) == [j \in 1..Len(order) |-> ts[order[j]].ret]

\* gather's value: the tasks' return values in the order of the awaitables,
\* whatever the order in which they completed
GatherResults(ts, order) == [i \in 1..Len(ts) |-> ts[i].ret]

RECURSIVE CombineFrom(_, _, _)
CombineFrom(urls, newsletter_results, i) ==
    IF i > Min(Len(urls), Len(newsletter_results)) THEN <<>>
    ELSE IF newsletter_results[i] # <<>>
         THEN << <<urls[i], newsletter_results[i]>> >>
              \o CombineFrom(urls, newsletter_results, i + 1)
         ELSE CombineFrom(urls, newsletter_results, i + 1)

\* CombinedResults that keeps the newsletters without posts
CombinedResultsUnfiltered(urls, newsletter_results) ==
    [i \in 1..Min(Len(urls), Len(newsletter_results)) |->
        <<urls[i], newsletter_results[i]>>]

\* combined_results: (newsletter_url, posts) for every non-empty posts
CombinedResults(urls, newsletter_results) == CombineFrom(urls, newsletter_results, 1)

\* the value search_across_substacks returns
SearchReturn(combined_results) ==
    IF combined_results = <<>>
    THEN [kind |-> "No results found", groups |-> <<>>]
    ELSE [kind |-> "Search results", groups |-> combined_results]

(***************************************************************************)
(* State.                                                                  *)
(***************************************************************************)
VARIABLES
    cache_file,          \* newsletter_cache.json: [exists, text]
    pc,                  \* search_across_substacks: "idle", "gather", "returned"
    args,                \* arguments of the current search_across_substacks call
    search_newsletters,  \* its selection
    tasks,               \* its search_single_newsletter tasks
    completed,           \* indices of the finished tasks, in completion order
    search_ret,          \* what the call returned (or that it raised)
    discover_ret,        \* arguments and result of the latest discovery
    lookup_ret,          \* kind of result of the latest single-item tool call
    cache_call           \* latest direct call of a cache function (SpecCache)

vars ==
    << cache_file, pc, args, search_newsletters, tasks, completed,
       search_ret, discover_ret, lookup_ret, cache_call >>

search_vars == << pc, args, search_newsletters, tasks, completed, search_ret >>

(***************************************************************************)
(* Inputs tried.                                                           *)
(***************************************************************************)
\* the newsletters argument: omitted, empty, three entries with a repetition
NewslettersArgs ==
    { None, Some(<<>>), Some(<< url_taibbi, url_readtpa, url_taibbi >>) }

\* max_newsletters and limit
IntArgs == (0 - NegArg)..MaxArg

\* results_per_newsletter
PerNewsletterArgs == 1..MaxPosts

\* the category argument: omitted, a key, a key in another case, no key, ""
CategoryArgs ==
    { None,
      Some(<<"t", "e", "c", "h", "n", "o", "l", "o", "g", "y">>),
      Some(<<"P", "o", "l", "i", "t", "i", "c", "s">>),
      Some(<<"n", "o", "n", "e", "x", "i", "s", "t", "e", "n", "t">>),
      Some(<<>>) }

\* the metadata dict the content client returns: a title, no publication date
ClientMetadata == { [title |-> "Title", id |-> "1"] }

\* contents of the cache file when the server starts: no file, a saved list,
\* text that is not JSON, and JSON that is not a list (a number, a string)
InitialFiles ==
    { NoFile,
      FileWith(json_dump(<< url_erikhoel, url_theweek >>)),
      FileWith(<<"[", "\"", "a">>),
      FileWith(<<"7">>),
      FileWith(<<"\"", "a", "b", "\"">>) }

\* the searches issued while discoveries and lookups go on (Spec)
ServerNewslettersArgs == { None }

ServerMaxNewsletters == { 1 }

NoArgs ==
    [newsletters |-> None, max_newsletters |-> 0,
     results_per_newsletter |-> 0, popular_only |-> FALSE]

NoReturn == [kind |-> "none", groups |-> <<>>]

Raised == [kind |-> "raised", groups |-> <<>>]

NoDiscovery ==
    [called |-> FALSE, category |-> None, limit |-> 0,
     newsletters |-> <<>>, header |-> ""]

NoLookup == "none"

NoCacheCall == [op |-> "none", saved |-> None, ret |-> PyNull]

Idle ==
    /\ pc = "idle"
    /\ args = NoArgs
    /\ search_newsletters = <<>>
    /\ tasks = <<>>
    /\ completed = <<>>
    /\ search_ret = NoReturn
    /\ discover_ret = NoDiscovery
    /\ lookup_ret = NoLookup
    /\ cache_call = NoCacheCall

Init ==
    /\ cache_file \in InitialFiles
    /\ Idle

(***************************************************************************)
(* search_across_substacks.                                                *)
(***************************************************************************)
\* the call up to the await of asyncio.gather (lines 145-166), with the
\* newsletters and max_newsletters arguments drawn from NArgs and MArgs
search_across_substacks_call(NArgs, MArgs) ==
    /\ pc # "gather"
    /\ \E newsletters \in NArgs, max_newsletters \in MArgs,
          results_per_newsletter \in PerNewsletterArgs, popular_only \in BOOLEAN :
        LET sel == SelectNewsletters(newsletters, max_newsletters,
                                     popular_only, cache_file)
        IN  /\ Len(sel.list) <= MaxFanOut
            /\ args' = [newsletters |-> newsletters,
                        max_newsletters |-> max_newsletters,
                        results_per_newsletter |-> results_per_newsletter,
                        popular_only |-> popular_only]
            /\ search_newsletters' = sel.list
            /\ completed' = <<>>
            /\ IF sel.raised
               THEN /\ pc' = "returned"
                    /\ tasks' = <<>>
                    /\ search_ret' = Raised
               ELSE /\ pc' = "gather"
                    /\ tasks' = [i \in 1..Len(sel.list) |-> NewTask]
                    /\ search_ret' = NoReturn
    /\ UNCHANGED << cache_file, discover_ret, lookup_ret, cache_call >>

\* task i leaves search_single_newsletter with ret
TaskReturns(i, ret) ==
    /\ tasks' = [tasks EXCEPT ![i] = DoneTask(ret, FALSE, FALSE)]
    /\ completed' = Append(completed, i)

\* the content client raised in task i: the except clause ends the task
TaskFails(i) ==
    LET e == ExceptClause(tasks[i].results)
    IN  /\ tasks' = [tasks EXCEPT ![i] = DoneTask(e.ret, TRUE, e.raised)]
        /\ completed' = Append(completed, i)

\* newsletter.search_posts returns n posts (lines 190-196)
search_posts_returns(i) ==
    /\ pc = "gather"
    /\ i \in 1..Len(tasks)
    /\ tasks[i].pc = "search_posts"
    /\ \E n \in 0..args.results_per_newsletter :
        IF n = 0
        THEN TaskReturns(i, <<>>)
        ELSE /\ tasks' = [tasks EXCEPT ![i].pc = "get_metadata",
                                       ![i].search_results = n]
             /\ UNCHANGED completed
    /\ UNCHANGED << cache_file, pc, args, search_newsletters,
                    search_ret, discover_ret, lookup_ret, cache_call >>

\* Newsletter(...) or newsletter.search_posts raises (lines 204-206)
search_posts_raises(i) ==
    /\ pc = "gather"
    /\ i \in 1..Len(tasks)
    /\ tasks[i].pc = "search_posts"
    /\ TaskFails(i)
    /\ UNCHANGED << cache_file, pc, args, search_newsletters,
                    search_ret, discover_ret, lookup_ret, cache_call >>

\* post.get_metadata returns for the next post (lines 197-203)
get_metadata_returns(i) ==
    /\ pc = "gather"
    /\ i \in 1..Len(tasks)
    /\ tasks[i].pc = "get_metadata"
    /\ \E metadata \in ClientMetadata :
        LET results == Append(tasks[i].results,
                              PostTuple(metadata, i, Len(tasks[i].results) + 1))
        IN  IF Len(results) = tasks[i].search_results
            THEN TaskReturns(i, results)
            ELSE /\ tasks' = [tasks EXCEPT ![i].results = results]
                 /\ UNCHANGED completed
    /\ UNCHANGED << cache_file, pc, args, search_newsletters,
                    search_ret, discover_ret, lookup_ret, cache_call >>

\* post.get_metadata raises (lines 204-206)
get_metadata_raises(i) ==
    /\ pc = "gather"
    /\ i \in 1..Len(tasks)
    /\ tasks[i].pc = "get_metadata"
    /\ TaskFails(i)
    /\ UNCHANGED << cache_file, pc, args, search_newsletters,
                    search_ret, discover_ret, lookup_ret, cache_call >>

\* asyncio.gather is over: compile and return, or let its exception out
\* (lines 166-185)
search_across_substacks_return ==
    /\ pc = "gather"
    /\ IF GatherRaises(tasks) THEN TRUE ELSE GatherDone(tasks)
    /\ pc' = "returned"
    /\ search_ret' =
         IF GatherRaises(tasks) THEN Raised
         ELSE SearchReturn(CombinedResults(search_newsletters,
                                           GatherResults(tasks, completed)))
    /\ UNCHANGED << cache_file, args, search_newsletters, tasks,
                    completed, discover_ret, lookup_ret, cache_call >>

(***************************************************************************)
(* discover_popular_substacks (no await: one step).                        *)
(***************************************************************************)
discover_popular_substacks ==
    \E category \in CategoryArgs, limit \in IntArgs :
        LET r == discover_result(category, limit)
        IN  /\ cache_file' = DiscoverCacheWrite(cache_file, r.newsletters)
            /\ discover_ret' = [called |-> TRUE, category |-> category,
                                limit |-> limit, newsletters |-> r.newsletters,
                                header |-> r.header]
            /\ UNCHANGED << search_vars, lookup_ret, cache_call >>

(***************************************************************************)
(* The single-item tools.  Each asks the content client, which raises,     *)
(* returns nothing or returns data, and formats a text; none touches the   *)
(* cache or a running search.                                              *)
(***************************************************************************)
ClientOutcomes == {"raises", "empty", "data"}

\* the handler's result: the fault propagates, a not-found text, a listing
LookupResult(outcome) ==
    CASE outcome = "raises" -> "raised"
      [] outcome = "empty"  -> "not found"
      [] OTHER              -> "text"

get_newsletter_posts ==
    /\ \E posts \in ClientOutcomes : lookup_ret' = LookupResult(posts)
    /\ UNCHANGED << cache_file, search_vars, discover_ret, cache_call >>

get_post_content ==
    /\ \E content \in ClientOutcomes : lookup_ret' = LookupResult(content)
    /\ UNCHANGED << cache_file, search_vars, discover_ret, cache_call >>

search_newsletter ==
    /\ \E search_results \in ClientOutcomes :
          lookup_ret' = LookupResult(search_results)
    /\ UNCHANGED << cache_file, search_vars, discover_ret, cache_call >>

get_author_info ==
    /\ \E profile_data \in ClientOutcomes :
          lookup_ret' = LookupResult(profile_data)
    /\ UNCHANGED << cache_file, search_vars, discover_ret, cache_call >>

get_newsletter_recommendations ==
    /\ \E recommendations \in ClientOutcomes :
          lookup_ret' = LookupResult(recommendations)
    /\ UNCHANGED << cache_file, search_vars, discover_ret, cache_call >>

get_newsletter_authors ==
    /\ \E authors \in ClientOutcomes : lookup_ret' = LookupResult(authors)
    /\ UNCHANGED << cache_file, search_vars, discover_ret, cache_call >>

get_post_content_resource ==
    /\ \E content \in ClientOutcomes : lookup_ret' = LookupResult(content)
    /\ UNCHANGED << cache_file, search_vars, discover_ret, cache_call >>

(***************************************************************************)
(* Spec: the server.  Tool calls arrive in any order, also while a search  *)
(* runs.                                                                   *)
(***************************************************************************)
Next ==
    \/ search_across_substacks_call(ServerNewslettersArgs, ServerMaxNewsletters)
    \/ \E i \in 1..MaxFanOut : search_posts_returns(i)
    \/ \E i \in 1..MaxFanOut : search_posts_raises(i)
    \/ \E i \in 1..MaxFanOut : get_metadata_returns(i)
    \/ \E i \in 1..MaxFanOut : get_metadata_raises(i)
    \/ search_across_substacks_return
    \/ discover_popular_substacks
    \/ get_newsletter_posts
    \/ get_post_content
    \/ search_newsletter
    \/ get_author_info
    \/ get_newsletter_recommendations
    \/ get_newsletter_authors
    \/ get_post_content_resource

Spec == Init /\ [][Next]_vars

(***************************************************************************)
(* SpecSearch: search_across_substacks calls, one after the other, over    *)
(* every initial cache file and the full range of arguments.               *)
(***************************************************************************)
NextSearch ==
    \/ search_across_substacks_call(NewslettersArgs, IntArgs)
    \/ \E i \in 1..MaxFanOut : search_posts_returns(i)
    \/ \E i \in 1..MaxFanOut : search_posts_raises(i)
    \/ \E i \in 1..MaxFanOut : get_metadata_returns(i)
    \/ \E i \in 1..MaxFanOut : get_metadata_raises(i)
    \/ search_across_substacks_return

SpecSearch == Init /\ [][NextSearch]_vars

\* the event loop resumes the call once gather is over; nothing makes the
\* content client answer
SpecSearchFair == SpecSearch /\ WF_vars(search_across_substacks_return)

(***************************************************************************)
(* SpecCache: the two cache functions called directly.                     *)
(***************************************************************************)
\* newsletter identifiers with characters JSON escapes or uses as syntax
SaveIds ==
    { <<>>, <<"a">>, <<"\"">>, <<"\\">>, <<"\\", "n">>, <<"\n">>,
      <<"a", "\"", ",", " ", "]">> }

RECURSIVE ListsUpTo(_)
ListsUpTo(n) ==
    IF n = 0 THEN { <<>> }
    ELSE ListsUpTo(n - 1)
         \cup { Append(l, x) : l \in ListsUpTo(n - 1), x \in SaveIds }

SaveLists == ListsUpTo(MaxSaveLen)

\* more files a server can find: JSON null, a list of numbers, an empty file,
\* a list followed by more text
CacheInitialFiles ==
    InitialFiles \cup
    { FileWith(<<"n", "u", "l", "l">>),
      FileWith(<<"[", "1", ",", " ", "2", "]">>),
      FileWith(<<>>),
      FileWith(<<"[", "]", "x">>) }

InitCache ==
    /\ cache_file \in CacheInitialFiles
    /\ Idle

save_newsletter_cache_call ==
    \E newsletters \in SaveLists :
        /\ cache_file' = save_newsletter_cache(newsletters)
        /\ cache_call' = [op |-> "save", saved |-> Some(newsletters), ret |-> PyNull]
        /\ UNCHANGED << search_vars, discover_ret, lookup_ret >>

load_newsletter_cache_call ==
    /\ cache_call' = [cache_call EXCEPT !.op = "load",
                                        !.ret = load_newsletter_cache(cache_file)]
    /\ UNCHANGED << cache_file, search_vars, discover_ret, lookup_ret >>

NextCache ==
    \/ save_newsletter_cache_call
    \/ load_newsletter_cache_call

SpecCache == InitCache /\ [][NextCache]_vars
(***************************************************************************)
(* Properties.                                                             *)
(***************************************************************************)
\* the first n entries of L, none if n is negative
FirstN(L, n) == SubSeq(L, 1, Min(Max(n, 0), Len(L)))

\* a list of strs as json.load returns it
AsPyList(L) == PyList([i \in 1..Len(L) |-> PyStr(L[i])])

\* the file holds a serialized list of newsletter identifiers
IsSerializedIdList(file) ==
    /\ file.exists
    /\ json_load(file.text).ok
    /\ json_load(file.text).v.t = "list"
    /\ \A i \in 1..Len(json_load(file.text).v.v) :
          json_load(file.text).v.v[i].t = "str"

\* (newsletter, posts) of the tasks in ix whose posts are not empty, in the
\* order of the selection
RECURSIVE GroupsOf(_, _)
GroupsOf(i, ix) ==
    IF i > Len(tasks) THEN <<>>
    ELSE IF i \in ix /\ tasks[i].ret # <<>>
         THEN << <<search_newsletters[i], tasks[i].ret>> >> \o GroupsOf(i + 1, ix)
         ELSE GroupsOf(i + 1, ix)

\* C1: the newsletters searched are the first max_newsletters entries, at
\* most max_newsletters of them, of the explicit list if it is not empty,
\* else of POPULAR_NEWSLETTERS if popular_only, else of the cached list if
\* that is not empty, else of POPULAR_NEWSLETTERS; and the call does not
\* raise while selecting.
C1_SelectionIsPrefixOfSource ==
    pc # "idle" =>
        LET cached == load_newsletter_cache(cache_file)
            source ==
                IF ArgTruthy(args.newsletters) THEN args.newsletters.v
                ELSE IF args.popular_only THEN POPULAR_NEWSLETTERS
                ELSE IF cached.t = "list" /\ cached.v # <<>>
                     THEN [i \in 1..Len(cached.v) |-> Elem(cached.v[i])]
                ELSE POPULAR_NEWSLETTERS
        IN  /\ ~(search_ret = Raised /\ tasks = <<>>)
            /\ search_newsletters = FirstN(source, args.max_newsletters)
            /\ Len(search_newsletters) <= args.max_newsletters

\* C2: when the content client raised in the search of a selected
\* newsletter, the call still returns normally, and its groups are exactly
\* the results of the newsletters whose search did not fail and found
\* something, in selection order.
C2_FailedSearchIsOmitted ==
    (pc = "returned" /\ \E i \in 1..Len(tasks) : tasks[i].failed) =>
        /\ search_ret.kind # "raised"
        /\ search_ret.groups =
             GroupsOf(1, {i \in 1..Len(tasks) : ~tasks[i].failed})
        /\ \A i \in 1..Len(tasks) : tasks[i].failed =>
             \A j \in 1..Len(search_ret.groups) :
                \A k \in 1..Len(search_ret.groups[j][2]) :
                    search_ret.groups[j][2][k][3].newsletter # i

C2_Witness ==
    /\ pc = "returned"
    /\ Len(tasks) = 2
    /\ ~tasks[1].failed /\ tasks[1].ret # <<>>
    /\ tasks[2].failed
    /\ search_ret.kind = "Search results"
    /\ Len(search_ret.groups) = 1

\* C3: the groups of the result follow the order of the selection, whatever
\* the order in which the searches completed, and every group holds the
\* posts found by the search of its own newsletter.
C3_GroupsInSelectionOrder ==
    (pc = "returned" /\ search_ret.kind = "Search results") =>
        \E f \in [1..Len(search_ret.groups) -> 1..Len(tasks)] :
            /\ \A j, k \in 1..Len(search_ret.groups) : j < k => f[j] < f[k]
            /\ \A j \in 1..Len(search_ret.groups) :
                /\ search_ret.groups[j][1] = search_newsletters[f[j]]
                /\ search_ret.groups[j][2] # <<>>
                /\ \A k \in 1..Len(search_ret.groups[j][2]) :
                      search_ret.groups[j][2][k][3].newsletter = f[j]

C3_Witness ==
    /\ pc = "returned"
    /\ completed = <<2, 1>>
    /\ search_ret.kind = "Search results"
    /\ Len(search_ret.groups) = 2

C5_LoadOfMalformedIsEmpty ==
    (cache_call.op = "load" /\ ~IsSerializedIdList(cache_file)) =>
        (cache_call.ret.t = "list" /\ cache_call.ret.v = <<>>)

\* C6: a load after save_newsletter_cache(L), with no other save in
\* between, returns L: the same strings in the same order.
C6_SaveLoadRoundTrip ==
    (cache_call.op = "load" /\ cache_call.saved.some) =>
        /\ cache_call.ret.t = "list"
        /\ cache_call.ret.v = AsPyList(cache_call.saved.v).v

C6_Witness ==
    /\ cache_call.op = "load"
    /\ cache_call.saved =
         Some(<< <<"a", "\"", ",", " ", "]">>, <<"a", "\"", ",", " ", "]">> >>)
    /\ cache_call.ret.t = "list"
    /\ Len(cache_call.ret.v) = 2

\* C7: for a category that is a key of categories and any limit, the
\* discovery returns the first limit entries of the category's list, and the
\* cache then loads as those entries.
C7_CategoryFirstLimit ==
    (discover_ret.called /\ discover_ret.category.some
        /\ discover_ret.category.v \in CategoryNames) =>
        /\ discover_ret.newsletters =
             FirstN(CategoryList(discover_ret.category.v), discover_ret.limit)
        /\ load_newsletter_cache(cache_file).t = "list"
        /\ load_newsletter_cache(cache_file).v =
             AsPyList(discover_ret.newsletters).v

\* C8: for a category that is supplied and is no key of categories, in any
\* case of letters, the discovery returns the first limit entries of the
\* de-duplicated merge of all category lists and says that the category was
\* not found.
C8_UnknownCategoryMerge ==
    (discover_ret.called /\ discover_ret.category.some
        /\ Lower(discover_ret.category.v) \notin CategoryNames) =>
        /\ discover_ret.newsletters = FirstN(unique_newsletters, discover_ret.limit)
        /\ discover_ret.header = "No newsletters found for category"

\* C9: once a discovery has run the cache loads as exactly the list the
\* latest discovery returned, and a step that is no discovery leaves the
\* cache file as it is (so the cache keeps its initial content until the
\* first discovery).
C9_CacheIsLatestDiscovery ==
    /\ [](discover_ret.called =>
            /\ load_newsletter_cache(cache_file).t = "list"
            /\ load_newsletter_cache(cache_file).v =
                 AsPyList(discover_ret.newsletters).v)
    /\ [][discover_ret' = discover_ret => cache_file' = cache_file]_vars

C9_Witness ==
    /\ discover_ret.called
    /\ Len(discover_ret.newsletters) = 2
    /\ lookup_ret # "none"
    /\ pc = "returned"
    /\ search_ret.kind = "Search results"
    /\ search_newsletters = FirstN(discover_ret.newsletters, 1)

\* every search of the call is over
AllFinished == \A i \in 1..Len(tasks) : tasks[i].pc = "done"

\* C10: the call starts one search per selected newsletter; it returns only
\* when every search is over; a step of one search, its failure included,
\* leaves the other searches as they are; and once every search is over the
\* call returns.
C10_ReturnsAfterAllSearches ==
    /\ [](pc = "gather" => Len(tasks) = Len(search_newsletters))
    /\ [][(pc = "gather" /\ pc' = "returned") =>
            (AllFinished /\ tasks' = tasks)]_vars
    /\ [][(pc = "gather" /\ pc' = "gather") =>
            \A i, j \in 1..Len(tasks) :
                (i # j /\ tasks'[i] # tasks[i]) => tasks'[j] = tasks[j]]_vars
    /\ ((pc = "gather" /\ AllFinished) ~> (pc = "returned"))

C10_Witness ==
    /\ pc = "returned"
    /\ completed = <<1, 2>>
    /\ tasks[1].failed
    /\ ~tasks[2].failed /\ tasks[2].ret # <<>>
    /\ search_ret.kind = "Search results"
====
